---------------------------- MODULE Spec2Model ----------------------------
(***************************************************************************)
(* A model of castcad's mesh selection / cut engine.                       *)
(*                                                                         *)
(* Numbers.  Every float of the program is an integer here.  Colours are   *)
(* hundredths (0.29 -> 29, 1.0 -> 100).  NaN and JavaScript's undefined    *)
(* are two reserved integers far from every value a buffer holds, so that  *)
(* every array stays an array of integers.                                 *)
(*                                                                         *)
(* Buffers.  A THREE.BufferGeometry is a record                            *)
(*     [id, index, attributes]                                             *)
(* where id is the object's identity, index says whether an index buffer   *)
(* is attached, and attributes maps the names that are set to              *)
(*     [itemSize, array]                                                   *)
(* with array the FLAT typed array, exactly as three.js stores it.         *)
(* TLA+ sequences start at 1, the program's at 0: component c of vertex v  *)
(* is array[v * itemSize + c + 1].                                         *)
(***************************************************************************)
EXTENDS Integers, Sequences, FiniteSets, TLC

\* ------------------------------------------------------------------ bounds
\* Largest vertex count of a source buffer given to cutAwaySelection.
MaxVerts == 7
\* Face indices that a selection set may hold range over 0..MaxSelIdx
\* (more than the faces of the largest buffer: out-of-range indices happen).
MaxSelIdx == 3

\* ------------------------------------------------------------------ numbers
\* Float32Array stores NaN for a value that is not a number.
NaN == -9999
\* What reading past the end of a typed array gives.
Undefined == -9998

\* Float32Array's conversion of a pushed JS value: undefined becomes NaN, a
\* number that was read from a Float32Array is stored unchanged.
ToFloat32(v) == IF v = Undefined THEN NaN ELSE v

\* new Float32Array(list): every element converted.
Float32Array(list) == [k \in 1..Len(list) |-> ToFloat32(list[k])]

\* new THREE.Float32BufferAttribute(list, itemSize)
Float32BufferAttribute(list, itemSize) ==
    [itemSize |-> itemSize, array |-> Float32Array(list)]

\* BufferAttribute.count
Count(attr) == Len(attr.array) \div attr.itemSize

\* BufferAttribute.getX / getY / getZ: array[index * itemSize + c], which is
\* undefined past the end of the array.
GetComponent(attr, index, c) ==
    LET k == index * attr.itemSize + c + 1
    IN  IF k <= Len(attr.array) THEN attr.array[k] ELSE Undefined

getX(attr, index) == GetComponent(attr, index, 0)

getY(attr, index) == GetComponent(attr, index, 1)

getZ(attr, index) == GetComponent(attr, index, 2)

\* BufferGeometry.getAttribute(name) !== undefined
HasAttribute(geom, name) == name \in DOMAIN geom.attributes

\* BufferGeometry.setAttribute(name, attr)
SetAttribute(geom, name, attr) ==
    [geom EXCEPT !.attributes =
        [a \in (DOMAIN geom.attributes) \cup {name} |->
            IF a = name THEN attr ELSE geom.attributes[a]]]

\* new THREE.BufferGeometry(): a fresh object, no index, no attributes.
NewBufferGeometry(id) == [id |-> id, index |-> FALSE, attributes |-> <<>>]

\* The "no geometry" value of a call that threw.
NoGeometry == NewBufferGeometry(0)

RECURSIVE Flatten(_)
\* A sequence of tuples as one flat array.
Flatten(tuples) == IF tuples = <<>> THEN <<>> ELSE Head(tuples) \o Flatten(Tail(tuples))

\* ------------------------------------------------- computeVertexNormals
\* One face's normal as BufferGeometry.computeVertexNormals computes it for a
\* non-indexed geometry: cb = (pC - pB) x (pA - pB).  (The final scaling to
\* unit length is a float operation and is left out: the integer cross
\* product stands for its direction.)  Any NaN operand gives NaN.
FaceNormal(pos, f) ==
    LET P(v, c) == GetComponent(pos, 3 * f + v, c)
        cbx == P(2, 0) - P(1, 0)
        cby == P(2, 1) - P(1, 1)
        cbz == P(2, 2) - P(1, 2)
        abx == P(0, 0) - P(1, 0)
        aby == P(0, 1) - P(1, 1)
        abz == P(0, 2) - P(1, 2)
        bad == \E v \in 0..2, c \in 0..2 : P(v, c) \in {NaN, Undefined}
    IN  IF bad THEN <<NaN, NaN, NaN>>
        ELSE <<cby * abz - cbz * aby, cbz * abx - cbx * abz, cbx * aby - cby * abx>>

RECURSIVE FaceNormals(_, _)
\* The flat normal array of faces f, f+1, ...: each face's normal on its 3
\* vertices.
FaceNormals(pos, f) ==
    IF 3 * f >= Count(pos) THEN <<>>
    ELSE LET n == FaceNormal(pos, f)
         IN  n \o n \o n \o FaceNormals(pos, f + 1)

\* BufferGeometry.computeVertexNormals(): with a position attribute set, a
\* normal attribute of the same count is created and filled.
computeVertexNormals(geom) ==
    IF ~HasAttribute(geom, "position") THEN geom
    ELSE SetAttribute(geom, "normal",
            [itemSize |-> 3, array |-> FaceNormals(geom.attributes["position"], 0)])

\* ------------------------------------------------------ cutAwaySelection
\* The four accumulators before the face loop.
EmptyLists ==
    [newPositions |-> <<>>, newNormals |-> <<>>, newUVs |-> <<>>, newColors |-> <<>>]

\* The body of the inner loop for one vertIndex: position always, normal, uv
\* and colour each only when the source has that attribute.
PushVertex(acc, geom, vertIndex) ==
    LET A(name) == geom.attributes[name]
    IN  [newPositions |-> acc.newPositions \o
            <<getX(A("position"), vertIndex), getY(A("position"), vertIndex),
              getZ(A("position"), vertIndex)>>,
         newNormals |-> IF HasAttribute(geom, "normal")
            THEN acc.newNormals \o
                 <<getX(A("normal"), vertIndex), getY(A("normal"), vertIndex),
                   getZ(A("normal"), vertIndex)>>
            ELSE acc.newNormals,
         newUVs |-> IF HasAttribute(geom, "uv")
            THEN acc.newUVs \o <<getX(A("uv"), vertIndex), getY(A("uv"), vertIndex)>>
            ELSE acc.newUVs,
         newColors |-> IF HasAttribute(geom, "color")
            THEN acc.newColors \o
                 <<getX(A("color"), vertIndex), getY(A("color"), vertIndex),
                   getZ(A("color"), vertIndex)>>
            ELSE acc.newColors]

\* PushFace with the vertex index computed as faceIndex + i.
PushFaceUnscaled(acc, geom, faceIndex) ==
    PushVertex(PushVertex(PushVertex(acc, geom, faceIndex), geom, faceIndex + 1),
               geom, faceIndex + 2)

\* for (let i = 0; i < 3; i++) { vertIndex = faceIndex * 3 + i; ... }
PushFace(acc, geom, faceIndex) ==
    PushVertex(PushVertex(PushVertex(acc, geom, faceIndex * 3), geom, faceIndex * 3 + 1),
               geom, faceIndex * 3 + 2)

\* faceIndex < faceCount, with faceCount = posAttr.count / 3 a JS (real)
\* division: the comparison is 3 * faceIndex < count.
InFaceLoop(geom, faceIndex) == 3 * faceIndex < Count(geom.attributes["position"])

RECURSIVE FaceLoop(_, _, _, _)
\* for (faceIndex = ...; faceIndex < faceCount; faceIndex++)
\*     { if (facesToRemoveSet.has(faceIndex)) continue; ... }
FaceLoop(geom, facesToRemoveSet, faceIndex, acc) ==
    IF ~InFaceLoop(geom, faceIndex) THEN acc
    ELSE IF faceIndex \in facesToRemoveSet
         THEN FaceLoop(geom, facesToRemoveSet, faceIndex + 1, acc)
         ELSE FaceLoop(geom, facesToRemoveSet, faceIndex + 1, PushFace(acc, geom, faceIndex))

\* The vertex indices the face loop reads.
VertsRead(geom, facesToRemoveSet) ==
    {3 * f + i : f \in {g \in 0..Count(geom.attributes["position"]) :
                          InFaceLoop(geom, g) /\ g \notin facesToRemoveSet},
                 i \in 0..2}

\* "Create new geometry": position always set; normal set when any was
\* copied, computed otherwise; uv and colour set when any was copied.
BuildGeometry(acc, newId) ==
    LET g0 == SetAttribute(NewBufferGeometry(newId), "position",
                           Float32BufferAttribute(acc.newPositions, 3))
        g1 == IF Len(acc.newNormals) > 0
              THEN SetAttribute(g0, "normal", Float32BufferAttribute(acc.newNormals, 3))
              ELSE computeVertexNormals(g0)
        g2 == IF Len(acc.newUVs) > 0
              THEN SetAttribute(g1, "uv", Float32BufferAttribute(acc.newUVs, 2))
              ELSE g1
    IN  IF Len(acc.newColors) > 0
        THEN SetAttribute(g2, "color", Float32BufferAttribute(acc.newColors, 3))
        ELSE g2

\* CutThrows with the index check left out.
CutThrowsNever(geom) == FALSE

\* The guard at the top of cutAwaySelection.
CutThrows(geom) == geom.index

\* cutAwaySelection(geometry, facesToRemove), newId being the identity the
\* new BufferGeometry gets.  The outcome names whether it threw, the
\* attributes it fetched, the vertex indices it read and what it returned.
cutAwaySelection(geom, facesToRemove, newId) ==
    IF CutThrows(geom)
    THEN [threw |-> TRUE, fetched |-> {}, vertsRead |-> {}, newGeometry |-> NoGeometry]
    ELSE [threw |-> FALSE,
          fetched |-> {"position", "normal", "uv", "color"},
          vertsRead |-> VertsRead(geom, facesToRemove),
          newGeometry |-> BuildGeometry(FaceLoop(geom, facesToRemove, 0, EmptyLists), newId)]

\* ------------------------------------------------------------ decodeSTL
\* The files a user may pick.  What STLLoader.parse makes of each is given
\* here as the decoded vertex list: "two" holds two triangles, "odd" one
\* triangle and a facet with a single vertex (the ASCII decoder emits the
\* vertices it finds), "empty" no facet at all; "bad" makes the parser throw.
Files == {"two", "odd", "empty", "bad"}

FilePositions(file) ==
    CASE file = "two" -> << <<-1, -1, 0>>, <<1, -1, 0>>, <<0, 2, 0>>,
                            <<3, -1, 0>>, <<5, -1, 0>>, <<4, 2, 0>> >>
      [] file = "odd" -> << <<-1, -1, 0>>, <<1, -1, 0>>, <<0, 2, 0>>, <<3, -1, 0>> >>
      [] OTHER -> <<>>

\* The base colour decodeSTL gives every vertex: [0.29, 0.69, 1.0].
BaseColor == <<29, 69, 100>>

\* The colour highlightSelectedFaces allocates a missing attribute with.
White == <<100, 100, 100>>

\* The highlight colour: setXYZ(vertexIndex, 1, 0, 0).
Red == <<100, 0, 0>>

RECURSIVE Repeat(_, _)
\* n copies of a tuple, flat.
Repeat(tuple, n) == IF n = 0 THEN <<>> ELSE tuple \o Repeat(tuple, n - 1)

\* Whether loader.parse throws on the file.
ParseThrows(file) == file = "bad"

\* What loader.parse returns for a file that parses: position and normal.
ParsedSTL(file, id) ==
    LET pos == FilePositions(file)
    IN  [id |-> id, index |-> FALSE,
         attributes |->
            [position |-> [itemSize |-> 3, array |-> Flatten(pos)],
             normal |-> [itemSize |-> 3, array |-> Repeat(<<0, 0, 1>>, Len(pos))]]]

\* decodeSTL's geometry for a file that parses: position and normal from the
\* loader, then a colour attribute of count vertices, all the base colour.
decodeSTL(file, id) ==
    LET pos == FilePositions(file)
        count == Len(pos)
    IN  [id |-> id, index |-> FALSE,
         attributes |->
            [position |-> [itemSize |-> 3, array |-> Flatten(pos)],
             normal |-> [itemSize |-> 3, array |-> Repeat(<<0, 0, 1>>, count)],
             color |-> [itemSize |-> 3, array |-> Repeat(BaseColor, count)]]]

\* ------------------------------------------------------- brush geometry
\* The pointer positions (clientX, clientY) of the mouse events.
Pointers == {<<20, 20>>, <<30, 20>>, <<31, 20>>, <<40, 20>>, <<0, 0>>}

\* The canvas rectangle and the camera.  localToWorld followed by
\* project(camera) and the NDC-to-screen lines is one affine map here: a
\* camera looking down the z axis that shows pixelsPerUnit pixels per world
\* unit, with the world origin at the middle of the canvas.
View == [left |-> 0, top |-> 0, width |-> 40, height |-> 40, pixelsPerUnit |-> 5]

\* const brushRadiusPixels = 10;
brushRadiusPixels == 10

\* screenX of a world x, screenY of a world y (y points up, screen y down).
ScreenX(x) == View.pixelsPerUnit * x + View.width \div 2 + View.left

ScreenY(y) == (0 - View.pixelsPerUnit) * y + View.height \div 2 + View.top

\* Vector3.fromBufferAttribute(position, v): NaN for what lies past the end.
VertexAt(position, v) ==
    <<ToFloat32(getX(position, v)), ToFloat32(getY(position, v)), ToFloat32(getZ(position, v))>>

\* Whether a vector has a NaN component.
HasNaN(vec) == \E c \in 1..3 : vec[c] = NaN

\* InBrush with < for <=.
InBrushStrict(position, faceIndex, pointer) ==
    LET a == VertexAt(position, faceIndex * 3)
        b == VertexAt(position, faceIndex * 3 + 1)
        c == VertexAt(position, faceIndex * 3 + 2)
        dx3 == (ScreenX(a[1]) + ScreenX(b[1]) + ScreenX(c[1])) - 3 * pointer[1]
        dy3 == (ScreenY(a[2]) + ScreenY(b[2]) + ScreenY(c[2])) - 3 * pointer[2]
    IN  /\ ~(HasNaN(a) \/ HasNaN(b) \/ HasNaN(c))
        /\ dx3 * dx3 + dy3 * dy3 < 9 * (brushRadiusPixels * brushRadiusPixels)

\* distSq <= brushRadiusPixels * brushRadiusPixels for face faceIndex and the
\* pointer.  The centroid is (a + b + c) / 3: to stay in integers both sides
\* are taken three times as long, so the test is on 9 * distSq.  A NaN
\* centroid compares false.
InBrush(position, faceIndex, pointer) ==
    LET a == VertexAt(position, faceIndex * 3)
        b == VertexAt(position, faceIndex * 3 + 1)
        c == VertexAt(position, faceIndex * 3 + 2)
        dx3 == (ScreenX(a[1]) + ScreenX(b[1]) + ScreenX(c[1])) - 3 * pointer[1]
        dy3 == (ScreenY(a[2]) + ScreenY(b[2]) + ScreenY(c[2])) - 3 * pointer[2]
    IN  /\ ~(HasNaN(a) \/ HasNaN(b) \/ HasNaN(c))
        /\ dx3 * dx3 + dy3 * dy3 <= 9 * (brushRadiusPixels * brushRadiusPixels)

\* The faces the loop of onMouseMove adds: faceIndex < position.count / 3.
BrushFaces(geom, pointer) ==
    LET position == geom.attributes["position"]
    IN  {f \in 0..Count(position) : 3 * f < Count(position) /\ InBrush(position, f, pointer)}

\* Twice the signed area of the screen triangle (p, q, r).
Orient(p, q, r) == (q[1] - p[1]) * (r[2] - p[2]) - (q[2] - p[2]) * (r[1] - p[1])

\* Whether the camera ray through the pointer meets face f: the pointer lies
\* in the projected triangle.  A triangle with a NaN corner is never met.
RayMeetsFace(position, f, pointer) ==
    LET a == VertexAt(position, 3 * f)
        b == VertexAt(position, 3 * f + 1)
        c == VertexAt(position, 3 * f + 2)
        A == <<ScreenX(a[1]), ScreenY(a[2])>>
        B == <<ScreenX(b[1]), ScreenY(b[2])>>
        C == <<ScreenX(c[1]), ScreenY(c[2])>>
        d1 == Orient(A, B, pointer)
        d2 == Orient(B, C, pointer)
        d3 == Orient(C, A, pointer)
    IN  /\ ~(HasNaN(a) \/ HasNaN(b) \/ HasNaN(c))
        /\ \/ (d1 >= 0 /\ d2 >= 0 /\ d3 >= 0)
           \/ (d1 <= 0 /\ d2 <= 0 /\ d3 <= 0)

\* raycaster.intersectObject(this.mesh, false): the faces met.
Intersects(geom, pointer) ==
    LET position == geom.attributes["position"]
    IN  {f \in 0..Count(position) : 3 * f < Count(position) /\ RayMeetsFace(position, f, pointer)}

\* highlightSelectedFaces(): allocate a white colour attribute when there is
\* none, then paint the 3 vertices of every selected face red.
highlightSelectedFaces(geom, selected) ==
    LET count == Count(geom.attributes["position"])
        g0 == IF HasAttribute(geom, "color") THEN geom
              ELSE SetAttribute(geom, "color", [itemSize |-> 3, array |-> Repeat(White, count)])
        old == g0.attributes["color"]
        painted == [old EXCEPT !.array = [k \in 1..Len(old.array) |->
                      IF ((k - 1) \div 9) \in selected THEN Red[((k - 1) % 3) + 1]
                      ELSE old.array[k]]]
    IN  SetAttribute(g0, "color", painted)

\* ResetColors with the colour highlightSelectedFaces allocates with.
ResetColorsWhite(geom) ==
    LET old == geom.attributes["color"]
    IN  SetAttribute(geom, "color",
            [old EXCEPT !.array = Repeat(White, Count(old))])

\* The colour loop of clearSelection: every vertex back to the base colour.
ResetColors(geom) ==
    LET old == geom.attributes["color"]
    IN  SetAttribute(geom, "color",
            [old EXCEPT !.array = Repeat(BaseColor, Count(old))])

\* gState.cutSelection(faces): the caller of cutAwaySelection, which replaces
\* the session's buffer by the cut one (a new DecodedSTL object).
cutSelection(stl, faces, newId) ==
    LET out == cutAwaySelection(stl, faces, newId)
    IN  IF out.threw THEN stl ELSE out.newGeometry

\* ------------------------------------------------------------ DataView
\* A file's contents (an ArrayBuffer) is a sequence of bytes 0..255; byte
\* offset k of the program is element k + 1.  A float32 is named by its 32
\* bits, read as a two's-complement integer: storing what getFloat32 gave
\* into a Float32Array keeps those bits.

\* Whether the n bytes at offset off lie in the buffer; a DataView getter
\* throws a RangeError when they do not.
Readable(data, off, n) == off >= 0 /\ off + n <= Len(data)

\* reader.getUint8(off)
getUint8(data, off) == data[off + 1]

\* reader.getUint16(off, true)
getUint16(data, off) == data[off + 1] + 256 * data[off + 2]

\* The largest integer the model counts with: it stands for every uint32 of
\* 2^31 and more, which lies above every length and every loop counter.
MaxInt == 2147483647

\* reader.getUint32(off, littleEndian)
getUint32(data, off, littleEndian) ==
    LET b(k) == IF littleEndian THEN data[off + 1 + k] ELSE data[off + 4 - k]
    IN  IF b(3) >= 128 THEN MaxInt
        ELSE b(0) + 256 * b(1) + 65536 * b(2) + 16777216 * b(3)

\* getFloat32 with the four bytes taken in big-endian order.
getFloat32BigEndian(data, off) ==
    LET top == IF data[off + 1] >= 128 THEN data[off + 1] - 256 ELSE data[off + 1]
    IN  16777216 * top + 65536 * data[off + 2] + 256 * data[off + 3] + data[off + 4]

\* reader.getFloat32(off, true): the 32 bits at off, little-endian.
getFloat32(data, off) ==
    LET top == IF data[off + 4] >= 128 THEN data[off + 4] - 256 ELSE data[off + 4]
    IN  16777216 * top + 65536 * data[off + 3] + 256 * data[off + 2] + data[off + 1]

\* ------------------------------------------------------------- isBinary
\* "solid"
solid == <<115, 111, 108, 105, 100>>

\* The bytes at offset off spell the word (the inner loop of isBinary).
MatchAt(data, word, off) ==
    \A i \in 0..(Len(word) - 1) : getUint8(data, off + i) = word[i + 1]

\* expect === reader.byteLength, with expect = 84 + nFaces * 50.  A count
\* above the byte length gives an expect above it; the product is taken for
\* the other counts only.
LengthMatches(data, nFaces) ==
    IF nFaces > Len(data) THEN FALSE ELSE 84 + nFaces * 50 = Len(data)

\* 'solid' found at one of the offsets of the scan: off = 0; off < 5.
SolidInFirstOffsets(data) == \E off \in 0..4 : MatchAt(data, solid, off)

\* isBinaryResult with the text sniff before the length check.
isBinarySniffFirst(data) ==
    IF SolidInFirstOffsets(data) THEN FALSE
    ELSE TRUE

\* What isBinary returns when reader.getUint32(80, true) does not throw.
isBinaryResult(data) ==
    IF LengthMatches(data, getUint32(data, 80, TRUE)) THEN TRUE
    ELSE IF SolidInFirstOffsets(data) THEN FALSE
    ELSE TRUE

\* Whether isBinary throws: its first read, getUint32(80, true), needs the
\* bytes 80..83.  (The scan reads offsets 0..8, which are there when byte 83
\* is.)
isBinaryThrows(data) == ~Readable(data, 80, 4)

\* ---------------------------------------------------------- parseBinary
\* 'C' 'O' 'L' 'O' as getUint32(index, false) reads it: 0x434f4c4f.
COLO == 1129270351

\* The first index of the header scan (index < 70) where "COLOR=" stands,
\* 70 when there is none.
ColorTagIndex(data) ==
    LET found == {index \in 0..69 :
                    /\ getUint32(data, index, FALSE) = COLO
                    /\ getUint8(data, index + 4) = 82
                    /\ getUint8(data, index + 5) = 61}
    IN  IF found = {} THEN 70 ELSE CHOOSE index \in found : \A j \in found : index <= j

\* A colour channel is a fraction k/31 (a face's 5 bits) or k/255 (a header
\* byte): both are kept as the integer 7905 times the fraction.
FiveBits(k) == 255 * k

HeaderByte(k) == 31 * k

\* hasColors and the default colour after the header scan.
HeaderColor(data) ==
    LET index == ColorTagIndex(data)
    IN  IF index = 70
        THEN [hasColors |-> FALSE, r |-> HeaderByte(255), g |-> HeaderByte(255),
              b |-> HeaderByte(255), alpha |-> HeaderByte(255)]
        ELSE [hasColors |-> TRUE,
              r |-> HeaderByte(getUint8(data, index + 6)),
              g |-> HeaderByte(getUint8(data, index + 7)),
              b |-> HeaderByte(getUint8(data, index + 8)),
              alpha |-> HeaderByte(getUint8(data, index + 9))]

\* r, g, b of a face with channels swapped: red from bits 10..14.
FaceColorBlueFirst(packedColor, hdr) ==
    IF (packedColor \div 32768) % 2 = 0
    THEN <<FiveBits((packedColor \div 1024) % 32), FiveBits((packedColor \div 32) % 32),
           FiveBits(packedColor % 32)>>
    ELSE <<hdr.r, hdr.g, hdr.b>>

\* r, g, b of a face from its attribute field packedColor.
FaceColor(packedColor, hdr) ==
    IF (packedColor \div 32768) % 2 = 0
    THEN <<FiveBits(packedColor % 32), FiveBits((packedColor \div 32) % 32),
           FiveBits((packedColor \div 1024) % 32)>>
    ELSE <<hdr.r, hdr.g, hdr.b>>

\* color.setRGB(r, g, b, SRGBColorSpace) keeps the linear value of each sRGB
\* channel: c * 0.0773993808 below 0.04045, else
\* (c * 0.9478672986 + 0.0521327014) ^ 2.4. The value is kept as the integer
\* nearest to a million times it, listed for the channels k/31 and k/255.
LinearOfFiveBits ==
  <<0, 2497, 5371, 9529, 15134, 22299, 31130, 41723, 54165, 68538, 84921, 103387,
     124004, 146839, 171956, 199415, 229275, 261592, 296421, 333816, 373826, 416503,
     461894, 510046, 561007, 614820, 671530, 731180, 793811, 859464, 928181, 1000000>>

LinearOfByte ==
  <<0, 304, 607, 911, 1214, 1518, 1821, 2125, 2428, 2732, 3035, 3347, 3677, 4025,
     4391, 4777, 5182, 5605, 6049, 6512, 6995, 7499, 8023, 8568, 9134, 9721, 10330,
     10960, 11612, 12286, 12983, 13702, 14444, 15209, 15996, 16807, 17642, 18500,
     19382, 20289, 21219, 22174, 23153, 24158, 25187, 26241, 27321, 28426, 29557,
     30713, 31896, 33105, 34340, 35601, 36889, 38204, 39546, 40915, 42311, 43735,
     45186, 46665, 48172, 49707, 51269, 52861, 54480, 56128, 57805, 59511, 61246,
     63010, 64803, 66626, 68478, 70360, 72272, 74214, 76185, 78187, 80220, 82283,
     84376, 86500, 88656, 90842, 93059, 95307, 97587, 99899, 102242, 104616, 107023,
     109462, 111932, 114435, 116971, 119538, 122139, 124772, 127438, 130136, 132868,
     135633, 138432, 141263, 144128, 147027, 149960, 152926, 155926, 158961, 162029,
     165132, 168269, 171441, 174647, 177888, 181164, 184475, 187821, 191202, 194618,
     198069, 201556, 205079, 208637, 212231, 215861, 219526, 223228, 226966, 230740,
     234551, 238398, 242281, 246201, 250158, 254152, 258183, 262251, 266356, 270498,
     274677, 278894, 283149, 287441, 291771, 296138, 300544, 304987, 309469, 313989,
     318547, 323143, 327778, 332452, 337164, 341914, 346704, 351533, 356400, 361307,
     366253, 371238, 376262, 381326, 386429, 391572, 396755, 401978, 407240, 412543,
     417885, 423268, 428690, 434154, 439657, 445201, 450786, 456411, 462077, 467784,
     473531, 479320, 485150, 491021, 496933, 502886, 508881, 514918, 520996, 527115,
     533276, 539479, 545724, 552011, 558340, 564712, 571125, 577580, 584078, 590619,
     597202, 603827, 610496, 617207, 623960, 630757, 637597, 644480, 651406, 658375,
     665387, 672443, 679542, 686685, 693872, 701102, 708376, 715694, 723055, 730461,
     737910, 745404, 752942, 760525, 768151, 775822, 783538, 791298, 799103, 806952,
     814847, 822786, 830770, 838799, 846873, 854993, 863157, 871367, 879622, 887923,
     896269, 904661, 913099, 921582, 930111, 938686, 947307, 955973, 964686, 973445,
     982251, 991102, 1000000>>

SRGBToLinear(c) ==
    IF c % 255 = 0 THEN LinearOfFiveBits[c \div 255 + 1] ELSE LinearOfByte[c \div 31 + 1]

\* color.r, color.g, color.b after setRGB.
SetRGB(rgb) == [i \in 1..3 |-> SRGBToLinear(rgb[i])]

\* Floats3 read in big-endian order.
Floats3BigEndian(data, start) ==
    <<getFloat32BigEndian(data, start), getFloat32BigEndian(data, start + 4),
      getFloat32BigEndian(data, start + 8)>>

\* The three floats at start, start + 4, start + 8.
Floats3(data, start) ==
    <<getFloat32(data, start), getFloat32(data, start + 4), getFloat32(data, start + 8)>>

\* Whether every read the loop body makes for the record at start is in the
\* buffer: the normal, the attribute field when the header has a colour, the
\* three vertices.
RecordReadable(data, start, hdr) ==
    /\ Readable(data, start, 12)
    /\ hdr.hasColors => Readable(data, start + 48, 2)
    /\ Readable(data, start + 12, 36)

RECURSIVE BinaryFaceLoop(_, _, _, _, _)
\* for (let face = 0; face < faces; face++): the arrays as filled so far;
\* a read outside the buffer throws and ends the loop.
BinaryFaceLoop(data, hdr, face, faces, acc) ==
    IF face >= faces THEN acc
    ELSE LET start == 84 + face * 50
         IN  IF ~RecordReadable(data, start, hdr) THEN [acc EXCEPT !.threw = TRUE]
             ELSE LET n == Floats3(data, start)
                      rgb == IF hdr.hasColors
                             THEN SetRGB(FaceColor(getUint16(data, start + 48), hdr))
                             ELSE <<>>
                  IN  BinaryFaceLoop(data, hdr, face + 1, faces,
                        [threw |-> FALSE,
                         vertices |-> acc.vertices \o Floats3(data, start + 12)
                                        \o Floats3(data, start + 24) \o Floats3(data, start + 36),
                         normals |-> acc.normals \o n \o n \o n,
                         colors |-> acc.colors \o rgb \o rgb \o rgb])

\* What a call of the loader gives: whether it threw, the format the
\* detector chose, the geometry returned and its groups (ASCII).
ParseThrew(format) ==
    [threw |-> TRUE, format |-> format, geometry |-> NoGeometry,
     groups |-> <<>>, groupNames |-> <<>>]

\* parseBinary(data), on a buffer that holds the bytes 0..83.
parseBinary(data, id) ==
    LET faces == getUint32(data, 80, TRUE)
        hdr == HeaderColor(data)
        acc == BinaryFaceLoop(data, hdr, 0, faces,
                  [threw |-> FALSE, vertices |-> <<>>, normals |-> <<>>, colors |-> <<>>])
        g0 == SetAttribute(NewBufferGeometry(id), "position",
                  [itemSize |-> 3, array |-> acc.vertices])
        g1 == SetAttribute(g0, "normal", [itemSize |-> 3, array |-> acc.normals])
        g2 == IF hdr.hasColors
              THEN SetAttribute(g1, "color", [itemSize |-> 3, array |-> acc.colors])
              ELSE g1
    IN  IF acc.threw THEN ParseThrew("Binary")
        ELSE [threw |-> FALSE, format |-> "Binary", geometry |-> g2,
              groups |-> <<>>, groupNames |-> <<>>]

\* ------------------------------------------------------------ parseASCII
\* A string is its sequence of character codes; position k of the program
\* is element k + 1, and the positions below are those of the elements.

\* new TextDecoder().decode(buffer): a byte below 128 is that character, a
\* byte that starts no valid sequence becomes U+FFFD.
ensureString(buffer) ==
    [k \in 1..Len(buffer) |-> IF buffer[k] < 128 THEN buffer[k] ELSE 65533]

\* "endsolid", "facet", "endfacet", "vertex", "normal"
endsolid == <<101, 110, 100>> \o solid

facet == <<102, 97, 99, 101, 116>>

endfacet == <<101, 110, 100>> \o facet

vertex == <<118, 101, 114, 116, 101, 120>>

normal == <<110, 111, 114, 109, 97, 108>>

\* \s of a regular expression, for the characters below 128.
IsSpace(c) == c \in {9, 10, 11, 12, 13, 32}

\* \d
IsDigit(c) == c \in 48..57

\* The least element of a set of positions, 0 for the empty set.
Least(hits) == IF hits = {} THEN 0 ELSE CHOOSE i \in hits : \A j \in hits : i <= j

\* The first position >= from where the word stands in the text, 0 for none.
FindFrom(text, word, from) ==
    Least({i \in from..(Len(text) - Len(word) + 1) :
              \A k \in 1..Len(word) : text[i + k - 1] = word[k]})

\* The match that starts at position i and whose closing word starts at j:
\* its first and last position, 0 and 0 when there is none.
Span(i, j, closeLen) ==
    IF j = 0 THEN [from |-> 0, to |-> 0] ELSE [from |-> i, to |-> j + closeLen - 1]

\* The first close after the opening word found at i.
CloseAfter(text, close, i, openLen) ==
    IF i = 0 THEN 0 ELSE FindFrom(text, close, i + openLen)

\* /open([\s\S]*?)close/g .exec(text) with lastIndex = from - 1: the first
\* open at or after from and the first close after it.  from and to are the
\* first and last position of the match, 0 when there is none.
ExecLazy(text, open, close, from) ==
    Span(FindFrom(text, open, from),
         CloseAfter(text, close, FindFrom(text, open, from), Len(open)),
         Len(close))

\* How many characters from position p on are white space / digits.
SpaceRun(text, p) ==
    LET stops == {j \in p..(Len(text) + 1) : j = Len(text) + 1 \/ ~IsSpace(text[j])}
    IN  (CHOOSE j \in stops : \A k \in stops : j <= k) - p

DigitRun(text, p) ==
    LET stops == {j \in p..(Len(text) + 1) : j = Len(text) + 1 \/ ~IsDigit(text[j])}
    IN  (CHOOSE j \in stops : \A k \in stops : j <= k) - p

RECURSIVE Decimal(_)
\* The number a string of digits spells.
Decimal(digits) ==
    IF digits = <<>> THEN 0
    ELSE 10 * Decimal(SubSeq(digits, 1, Len(digits) - 1)) + (digits[Len(digits)] - 48)

\* parseFloat of a captured group: NaN for the empty string.
parseFloat(digits) == IF digits = <<>> THEN NaN ELSE Decimal(digits)

RECURSIVE ExecFloats(_, _, _)

\* What one patternFloat may take at position p: w spaces and n digits.
Cands(text, p) ==
    UNION {{<<w, n>> : n \in 0..DigitRun(text, p + w)} : w \in 1..SpaceRun(text, p)}

\* The choice a greedy match makes: most spaces, then most digits.
Greediest(good) ==
    CHOOSE c \in good : \A d \in good : c[1] > d[1] \/ (c[1] = d[1] /\ c[2] >= d[2])

\* The group captured from..to, then the groups of the rest.
FloatsJoin(text, from, to, rest) ==
    [ok |-> TRUE, vals |-> <<parseFloat(SubSeq(text, from, to))>> \o rest.vals,
     end |-> rest.end]

FloatsTake(text, p, k, best) ==
    FloatsJoin(text, p + best[1], p + best[1] + best[2] - 1,
               ExecFloats(text, p + best[1] + best[2], k - 1))

FloatsPick(text, p, k, good) ==
    IF good = {} THEN [ok |-> FALSE, vals |-> <<>>, end |-> p]
    ELSE FloatsTake(text, p, k, Greediest(good))

\* k times patternFloat, [\s]+([+-]?(?:\d*)(?:\.\d*)?(?:[eE][+-]?\d+)?), from
\* position p, for texts whose numbers are strings of digits: each group
\* takes one or more spaces and then zero or more digits, both as many as
\* the rest of the pattern allows (greedy, backtracking).  The result names
\* whether it matched, the parsed groups and the position after the match.
ExecFloats(text, p, k) ==
    IF k = 0 THEN [ok |-> TRUE, vals |-> <<>>, end |-> p]
    ELSE FloatsPick(text, p, k,
            {c \in Cands(text, p) : ExecFloats(text, p + c[1] + c[2], k - 1).ok})

RECURSIVE ExecAllTriples(_, _, _)

\* The matches from the word found at i on, m being the three floats after
\* it: a failed match lets the scan go on behind i.
TriplesAt(text, word, i, m) ==
    IF i = 0 THEN <<>>
    ELSE IF ~m.ok THEN ExecAllTriples(text, word, i + 1)
    ELSE <<m.vals>> \o ExecAllTriples(text, word, m.end)

TriplesFrom(text, word, i) == TriplesAt(text, word, i, ExecFloats(text, i + Len(word), 3))

\* while ((result = pattern.exec(text)) !== null), pattern being the word
\* followed by three patternFloat: the triples of all matches from position
\* from on, in order.
ExecAllTriples(text, word, from) == TriplesFrom(text, word, FindFrom(text, word, from))

\* The normal loop: every match overwrites the one Vector3 normal, so it
\* ends as the last match, or as it was when there is no match.
NormalAfter(ns, was) == IF ns = <<>> THEN was ELSE ns[Len(ns)]

\* The vertex loop without endVertex++.
VertexPushEndVertexKept(acc, n, vs) ==
    [acc EXCEPT !.normal = n,
                !.vertices = acc.vertices \o Flatten(vs),
                !.normals = acc.normals \o Flatten([k \in 1..Len(vs) |-> n])]

\* The vertex loop: every match pushes its three numbers and the normal as
\* it then is, and counts a vertex.
VertexPush(acc, n, vs) ==
    [acc EXCEPT !.normal = n,
                !.vertices = acc.vertices \o Flatten(vs),
                !.normals = acc.normals \o Flatten([k \in 1..Len(vs) |-> n]),
                !.endVertex = acc.endVertex + Len(vs)]

\* The body of the facet loop for one facet's text: the normal loop, then
\* the vertex loop; the two count tests only log.
FacetBody(text, acc) ==
    VertexPush(acc, NormalAfter(ExecAllTriples(text, normal, 1), acc.normal),
               ExecAllTriples(text, vertex, 1))

RECURSIVE FacetLoop(_, _, _)

\* The facet loop as an if: the first facet only.
FacetLoopAtOnce(solidText, m, acc) ==
    IF m.from = 0 THEN acc ELSE FacetBody(SubSeq(solidText, m.from, m.to), acc)

\* The facet loop at the match m: its body, then the loop from behind m.
FacetLoopAt(solidText, m, acc) ==
    IF m.from = 0 THEN acc
    ELSE FacetLoop(solidText, m.to + 1, FacetBody(SubSeq(solidText, m.from, m.to), acc))

\* while ((result = patternFace.exec(solid)) !== null)
FacetLoop(solidText, from, acc) ==
    FacetLoopAt(solidText, ExecLazy(solidText, facet, endfacet, from), acc)

\* The characters that end a line: the . of a pattern does not match them.
IsLineEnd(c) == c \in {10, 13, 8232, 8233}

\* The rest of the line from position i0 + 6 on.
RestOfLine(solidText, i0) ==
    SubSeq(solidText, i0 + 6,
           Least({j \in (i0 + 6)..(Len(solidText) + 1) :
                     j = Len(solidText) + 1 \/ IsLineEnd(solidText[j])}) - 1)

NameAt(solidText, i0) == IF i0 = 0 THEN <<>> ELSE RestOfLine(solidText, i0)

\* patternName = /solid\s(.+)/ on the solid's text: the rest of the line
\* after the first "solid" that a space and one more character of the same
\* line follow; "" when there is none.
SolidName(solidText) ==
    NameAt(solidText,
           Least({i \in 1..(Len(solidText) - 6) :
                     /\ \A k \in 1..5 : solidText[i + k - 1] = solid[k]
                     /\ IsSpace(solidText[i + 5])
                     /\ ~IsLineEnd(solidText[i + 6])}))

\* geometry.addGroup(start, count, groupCount) and groupNames.push(name)
\* for the solid whose facets took the loop from acc to after.
AddGroup(acc, after, name) ==
    [after EXCEPT
        !.groupNames = Append(acc.groupNames, name),
        !.groups = Append(acc.groups,
            [start |-> acc.endVertex,
             count |-> after.endVertex - acc.endVertex,
             materialIndex |-> Len(acc.groups)])]

RECURSIVE SolidLoop(_, _, _)

SolidBody(solidText, acc) ==
    AddGroup(acc, FacetLoop(solidText, 1, acc), SolidName(solidText))

\* The solid loop at the match m: its body, then the loop from behind m.
SolidLoopAt(text, m, acc) ==
    IF m.from = 0 THEN acc
    ELSE SolidLoop(text, m.to + 1, SolidBody(SubSeq(text, m.from, m.to), acc))

\* while ((result = patternSolid.exec(data)) !== null)
SolidLoop(text, from, acc) ==
    SolidLoopAt(text, ExecLazy(text, solid, endsolid, from), acc)

\* The geometry returned: position and normal attributes, groups.
AsciiResult(acc, id) ==
    [threw |-> FALSE, format |-> "Ascii",
     geometry |-> SetAttribute(
                     SetAttribute(NewBufferGeometry(id), "position",
                                  Float32BufferAttribute(acc.vertices, 3)),
                     "normal", Float32BufferAttribute(acc.normals, 3)),
     groups |-> acc.groups, groupNames |-> acc.groupNames]

\* parseASCII(data): it never throws.
parseASCII(text, id) ==
    AsciiResult(SolidLoop(text, 1,
                    [vertices |-> <<>>, normals |-> <<>>, normal |-> <<0, 0, 0>>,
                     endVertex |-> 0, groups |-> <<>>, groupNames |-> <<>>]),
                id)

\* ---------------------------------------------------------------- parse
\* STLLoader.parse(data) for an ArrayBuffer: isBinary(binData) ?
\* parseBinary(binData) : parseASCII(ensureString(data)).
parse(data, id) ==
    IF isBinaryThrows(data) THEN ParseThrew("none")
    ELSE IF isBinaryResult(data) THEN parseBinary(data, id)
    ELSE parseASCII(ensureString(data), id)

\* ---------------------------------------------------------------- state
\* Largest number of decodeFile calls in flight.
MaxReading == 2
\* Largest number of buffer objects a session creates (loads and cuts).
MaxObjects == 4

VARIABLES
    geometry,        \* cutAwaySelection's argument: the source buffer object
    facesToRemove,   \* cutAwaySelection's argument: the caller's Set object
    cutOutcome,      \* what the call gave
    cutPc,           \* "call" before the call, "done" after it
    decodedSTL,      \* gState.decodedSTL: the session's buffer (NoGeometry: null)
    decodingError,   \* gState.decodingError ("" : null)
    selecting,       \* gState.selecting
    reading,         \* the decodeFile calls made since the oldest one not yet settled
    nextId,          \* the identity the next new buffer object gets
    mounted,         \* whether the Editor and its STLViewer are mounted
    mesh,            \* STLViewer.mesh's geometry (NoGeometry: undefined)
    isDragging,      \* STLViewer.isDragging
    selectedFaceIndices, \* STLViewer.selectedFaceIndices
    toolsShown,      \* selectedFaceIndices.size > 0 as the Editor last rendered it
    transformControls, \* STLViewer.transformControls: its mode, its gizmo in the scene or not
    data,            \* STLLoader.parse's argument: the file's bytes
    parseOutcome,    \* what the call gave
    parsePc,         \* "call" before the call, "done" after it
    lastEvent        \* the event handled last: [type, x, y]

cutVars == <<geometry, facesToRemove, cutOutcome, cutPc>>

appVars == <<decodedSTL, decodingError, selecting, reading, nextId>>

viewerVars == <<mounted, mesh, isDragging, selectedFaceIndices, toolsShown, transformControls>>

parseVars == <<data, parseOutcome, parsePc>>

vars == <<cutVars, parseVars, appVars, viewerVars, lastEvent>>

Event(type, pointer) == [type |-> type, x |-> pointer[1], y |-> pointer[2]]

\* ---------------------------------------------- source buffers for the cut
\* Component values of a source vertex position.
PosVals == {<<0, 0, 0>>, <<1, 2, 3>>}

\* An optional attribute whose every component is distinct, so that any
\* mis-copied component shows: vertex v (0-based) component c.
Tagged(name, n) ==
    LET base == CASE name = "normal" -> 100 [] name = "uv" -> 200 [] OTHER -> 300
        size == IF name = "uv" THEN 2 ELSE 3
    IN  [itemSize |-> size, array |-> [k \in 1..(n * size) |-> base + k]]

\* A source buffer: n vertices with the given positions, the optional
\* attributes named in opt, indexed or not.
SourceGeometry(idx, pos, opt) ==
    [id |-> 1, index |-> idx,
     attributes |-> [a \in {"position"} \cup opt |->
        IF a = "position" THEN [itemSize |-> 3, array |-> Flatten(pos)]
        ELSE Tagged(a, Len(pos))]]

NoOutcome == [threw |-> FALSE, fetched |-> {}, vertsRead |-> {}, newGeometry |-> NoGeometry]

\* The loader's outcome before any call.
NoParse ==
    [threw |-> FALSE, format |-> "none", geometry |-> NoGeometry,
     groups |-> <<>>, groupNames |-> <<>>]

\* No call of the loader under way.
InitParseIdle ==
    /\ data = <<>>
    /\ parseOutcome = NoParse
    /\ parsePc = "idle"

\* The session before any file is picked: the Loader is shown.
InitApp ==
    /\ decodedSTL = NoGeometry
    /\ decodingError = ""
    /\ selecting = FALSE
    /\ reading = <<>>
    /\ nextId = 1

\* No STLViewer instance.
\* initThree(): new TransformControls(camera, domElement), whose mode is
\* "translate"; its helper is not added to the scene.
NewTransformControls == [mode |-> "translate", gizmoInScene |-> FALSE]

InitViewer ==
    /\ mounted = FALSE
    /\ mesh = NoGeometry
    /\ isDragging = FALSE
    /\ selectedFaceIndices = {}
    /\ toolsShown = FALSE
    /\ transformControls = NewTransformControls

InitCut ==
    /\ \E n \in 0..MaxVerts :
         \E pos \in [1..n -> PosVals], opt \in SUBSET {"normal", "uv", "color"}, idx \in BOOLEAN :
            geometry = SourceGeometry(idx, pos, opt)
    /\ facesToRemove \in SUBSET (0..MaxSelIdx)
    /\ cutOutcome = NoOutcome
    /\ cutPc = "call"
    /\ InitParseIdle
    /\ InitApp
    /\ InitViewer
    /\ lastEvent = Event("none", <<0, 0>>)

\* CutCall with the kept attributes written back into the source object,
\* which is then returned.
CutCallInPlace ==
    /\ cutPc = "call"
    /\ LET out == cutAwaySelection(geometry, facesToRemove, geometry.id)
       IN  /\ cutOutcome' = out
           /\ geometry' = IF out.threw THEN geometry ELSE out.newGeometry
    /\ cutPc' = "done"
    /\ UNCHANGED <<facesToRemove, parseVars, appVars, viewerVars, lastEvent>>

\* One call of cutAwaySelection.  The function assigns to neither argument:
\* it reads the geometry through getters and copies the Set (new Set(...)).
CutCall ==
    /\ cutPc = "call"
    /\ cutOutcome' = cutAwaySelection(geometry, facesToRemove, geometry.id + 1)
    /\ cutPc' = "done"
    /\ UNCHANGED <<geometry, facesToRemove, parseVars, appVars, viewerVars, lastEvent>>

NextCut == CutCall

SpecCut == InitCut /\ [][NextCut]_vars

\* ------------------------------------------------------------ the session
InitSession ==
    /\ geometry = NoGeometry
    /\ facesToRemove = {}
    /\ cutOutcome = NoOutcome
    /\ cutPc = "idle"
    /\ InitParseIdle
    /\ InitApp
    /\ InitViewer
    /\ lastEvent = Event("none", <<0, 0>>)

\* ClearSceneSelection without the clear() call.
ClearSceneSelectionKept(meshNow, selected) == selected

\* clearScene()'s effect on selectedFaceIndices: cleared when a mesh (and the
\* scene) is there.
ClearSceneSelection(meshNow, selected) ==
    IF meshNow # NoGeometry THEN {} ELSE selected

\* Commit with componentDidUpdate calling loadSTL without clearScene.
CommitWithoutClearScene(newSTL) ==
    IF newSTL = NoGeometry
    THEN /\ mounted' = FALSE
         /\ transformControls' = NewTransformControls
         /\ mesh' = NoGeometry
         /\ isDragging' = FALSE
         /\ selectedFaceIndices' = {}
         /\ toolsShown' = FALSE
    ELSE IF ~mounted
    THEN /\ mounted' = TRUE
         /\ transformControls' = NewTransformControls
         /\ mesh' = newSTL
         /\ isDragging' = FALSE
         /\ selectedFaceIndices' = {}
         /\ toolsShown' = FALSE
    ELSE /\ mounted' = TRUE
         /\ transformControls' = transformControls
         /\ toolsShown' = (selectedFaceIndices # {})
         /\ isDragging' = isDragging
         /\ selectedFaceIndices' = selectedFaceIndices
         /\ mesh' = IF newSTL.id # mesh.id THEN newSTL ELSE mesh

\* What React does once gState.decodedSTL is newSTL: App shows the Loader for
\* null and the Editor otherwise.  An Editor that appears mounts a new
\* STLViewer (field initialisers, componentDidMount: loadSTL); an Editor that
\* goes unmounts it (componentWillUnmount: cleanUp, clearScene); an Editor
\* that stays renders (the Cut and Deselect buttons by the selection as it is
\* at that moment) and then componentDidUpdate runs: for a changed decodedSTL,
\* clearScene and loadSTL.
Commit(newSTL) ==
    IF newSTL = NoGeometry
    THEN /\ mounted' = FALSE
         /\ transformControls' = NewTransformControls
         /\ mesh' = NoGeometry
         /\ isDragging' = FALSE
         /\ selectedFaceIndices' = {}
         /\ toolsShown' = FALSE
    ELSE IF ~mounted
    THEN /\ mounted' = TRUE
         /\ transformControls' = NewTransformControls
         /\ mesh' = newSTL
         /\ isDragging' = FALSE
         /\ selectedFaceIndices' = {}
         /\ toolsShown' = FALSE
    ELSE /\ mounted' = TRUE
         /\ transformControls' = transformControls
         /\ toolsShown' = (selectedFaceIndices # {})
         /\ isDragging' = isDragging
         /\ IF newSTL.id # mesh.id
            THEN /\ selectedFaceIndices' = ClearSceneSelection(mesh, selectedFaceIndices)
                 /\ mesh' = newSTL
            ELSE /\ selectedFaceIndices' = selectedFaceIndices
                 /\ mesh' = mesh

\* The calls whose FileReader has not ended yet.
InFlight(calls) == {k \in 1..Len(calls) : calls[k].pc = "reading"}

\* The calls once the i-th has come to pc: in the order they were made, from
\* the oldest one still in flight on.
Settle(calls, i, pc) ==
    LET now == [calls EXCEPT ![i].pc = pc]
    IN  IF InFlight(now) = {} THEN <<>>
        ELSE SubSeq(now, CHOOSE k \in InFlight(now) : \A j \in InFlight(now) : k <= j,
                    Len(now))

\* gState.decodeFile(file), from the Loader's file picker, up to its await:
\* decodingError is reset and the FileReader starts.
DecodeFile(file) ==
    /\ ~mounted
    /\ Len(reading) < MaxReading
    /\ nextId + Cardinality(InFlight(reading)) <= MaxObjects
    /\ decodingError' = ""
    /\ reading' = Append(reading, [file |-> file, pc |-> "reading"])
    /\ lastEvent' = Event("decodeFile", <<0, 0>>)
    /\ UNCHANGED <<cutVars, parseVars, decodedSTL, selecting, nextId, viewerVars>>

\* decodeFile's catch branch assigning null to decodedSTL.
DecodedAfterFailureNull(stl) == NoGeometry

\* decodedSTL after decodeFile's catch branch: it is not assigned.
DecodedAfterFailure(stl) == stl

\* reader.onload of the i-th call in flight, and decodeFile's continuation:
\* a parse that throws rejects and sets decodingError; a parse that succeeds
\* resolves, decodedSTL is assigned and React commits.
ReaderOnLoad(i) ==
    LET file == reading[i].file
    IN  /\ i \in InFlight(reading)
        /\ reading' = Settle(reading, i, IF ParseThrows(file) THEN "failed" ELSE "loaded")
        /\ lastEvent' = Event("load", <<0, 0>>)
        /\ IF ParseThrows(file)
           THEN /\ decodingError' = "parse"
                /\ decodedSTL' = DecodedAfterFailure(decodedSTL)
                /\ UNCHANGED <<nextId, viewerVars>>
           ELSE /\ decodedSTL' = decodeSTL(file, nextId)
                /\ nextId' = nextId + 1
                /\ Commit(decodeSTL(file, nextId))
                /\ UNCHANGED decodingError
        /\ UNCHANGED <<cutVars, parseVars, selecting>>

\* The FileReader of the i-th call in flight fails to read the file: it
\* fires "error", for which decodeSTL sets no handler, so the promise is
\* neither resolved nor rejected and decodeFile never resumes.
ReaderOnError(i) ==
    /\ i \in InFlight(reading)
    /\ reading' = Settle(reading, i, "error")
    /\ lastEvent' = Event("error", <<0, 0>>)
    /\ UNCHANGED <<cutVars, parseVars, decodedSTL, decodingError, selecting, nextId, viewerVars>>

\* The Close button's dialog confirmed: gState.decodedSTL = null.
CloseFile ==
    /\ mounted
    /\ decodedSTL' = NoGeometry
    /\ Commit(NoGeometry)
    /\ lastEvent' = Event("close", <<0, 0>>)
    /\ UNCHANGED <<cutVars, parseVars, decodingError, selecting, reading, nextId>>

\* gState.hideTransformControls(viewer): scene.remove(gizmo).
hideTransformControls(controls) == [controls EXCEPT !.gizmoInScene = FALSE]

\* gState.showTransformControls(viewer): scene.add(gizmo).
showTransformControls(controls) == [controls EXCEPT !.gizmoInScene = TRUE]

\* The Select button with startSelecting() alone.
ControlsAfterSelectKept(controls) == controls

\* The gizmo after the Select button: hidden when selecting mode starts.
ControlsAfterSelect(controls) ==
    IF selecting THEN controls ELSE hideTransformControls(controls)

\* The Select button: stopSelecting() when selecting, startSelecting() and
\* hideTransformControls() otherwise; setState({}) renders the Editor again.
SelectClick ==
    /\ mounted
    /\ selecting' = ~selecting
    /\ transformControls' = ControlsAfterSelect(transformControls)
    /\ toolsShown' = (selectedFaceIndices # {})
    /\ lastEvent' = Event("select", <<0, 0>>)
    /\ UNCHANGED <<cutVars, parseVars, decodedSTL, decodingError, reading, nextId,
                   mounted, mesh, isDragging, selectedFaceIndices>>

\* The Rotate and the Translate button: when the controls are not in that
\* mode or the gizmo is not in the scene, the mode is set, the gizmo shown
\* and selecting mode stopped; otherwise the gizmo is hidden. setState({})
\* renders the Editor again.
TransformClick(mode) ==
    /\ mounted
    /\ IF transformControls.mode # mode \/ ~transformControls.gizmoInScene
       THEN /\ transformControls' = showTransformControls([transformControls EXCEPT !.mode = mode])
            /\ selecting' = FALSE
       ELSE /\ transformControls' = hideTransformControls(transformControls)
            /\ UNCHANGED selecting
    /\ toolsShown' = (selectedFaceIndices # {})
    /\ lastEvent' = Event(mode, <<0, 0>>)
    /\ UNCHANGED <<cutVars, parseVars, decodedSTL, decodingError, reading, nextId,
                   mounted, mesh, isDragging, selectedFaceIndices>>

RotateClick == TransformClick("rotate")

TranslateClick == TransformClick("translate")

\* DraggingAfterDown without the intersects.length test.
DraggingAfterDownAnywhere(pointer) ==
    IF ~selecting THEN isDragging
    ELSE IF mesh = NoGeometry THEN isDragging
    ELSE TRUE

\* isDragging after onMouseDown.
DraggingAfterDown(pointer) ==
    IF ~selecting THEN isDragging
    ELSE IF mesh = NoGeometry THEN isDragging
    ELSE IF Intersects(mesh, pointer) # {} THEN TRUE
    ELSE isDragging

onMouseDown(pointer) ==
    /\ mounted
    /\ isDragging' = DraggingAfterDown(pointer)
    /\ lastEvent' = Event("mousedown", pointer)
    /\ UNCHANGED <<cutVars, parseVars, appVars, mounted, transformControls, mesh, selectedFaceIndices, toolsShown>>

\* isDragging after onMouseUp.
DraggingAfterUp == IF ~selecting THEN isDragging ELSE FALSE

\* onMouseUp with the selection set cleared as the drag ends.
onMouseUpClearing ==
    /\ mounted
    /\ isDragging' = DraggingAfterUp
    /\ selectedFaceIndices' = {}
    /\ lastEvent' = Event("mouseup", <<0, 0>>)
    /\ UNCHANGED <<cutVars, parseVars, appVars, mounted, transformControls, mesh, toolsShown>>

onMouseUp ==
    /\ mounted
    /\ isDragging' = DraggingAfterUp
    /\ lastEvent' = Event("mouseup", <<0, 0>>)
    /\ UNCHANGED <<cutVars, parseVars, appVars, mounted, transformControls, mesh, selectedFaceIndices, toolsShown>>

\* Whether onMouseMove gets past its two early returns.
MovePaints == selecting /\ mesh # NoGeometry /\ isDragging

\* SelectionAfterMove with the set rebuilt from the faces under the brush.
SelectionAfterMoveRebuilt(pointer) == BrushFaces(mesh, pointer)

\* selectedFaceIndices after the face loop of onMouseMove.
SelectionAfterMove(pointer) == selectedFaceIndices \cup BrushFaces(mesh, pointer)

\* onMouseMove: the face loop, highlightSelectedFaces (on the geometry object
\* that gState.decodedSTL holds too) and onSelect, which renders the Editor.
onMouseMove(pointer) ==
    /\ mounted
    /\ lastEvent' = Event("mousemove", pointer)
    /\ IF MovePaints
       THEN /\ selectedFaceIndices' = SelectionAfterMove(pointer)
            /\ mesh' = highlightSelectedFaces(mesh, SelectionAfterMove(pointer))
            /\ decodedSTL' = IF decodedSTL.id = mesh.id THEN mesh' ELSE decodedSTL
            /\ toolsShown' = (selectedFaceIndices' # {})
       ELSE UNCHANGED <<selectedFaceIndices, mesh, decodedSTL, toolsShown>>
    /\ UNCHANGED <<cutVars, parseVars, decodingError, selecting, reading, nextId,
                   mounted, transformControls, isDragging>>

\* Whether clearSelection gets past its two early returns.
ClearRuns == mesh # NoGeometry /\ HasAttribute(mesh, "color")

\* selectedFaceIndices after clearSelection() on a viewer whose mesh is
\* meshNow: cleared unless the call returned early.
SelectionAfterClear(meshNow, selected) ==
    IF meshNow # NoGeometry /\ HasAttribute(meshNow, "color") THEN {} ELSE selected

\* The mesh's geometry after clearSelection().
MeshAfterClear(meshNow) ==
    IF meshNow # NoGeometry /\ HasAttribute(meshNow, "color") THEN ResetColors(meshNow)
    ELSE meshNow

\* The "Deselect all" button, shown when the selection was not empty at the
\* last render: clearSelection(), whose onSelect renders the Editor.
clearSelection ==
    /\ mounted
    /\ toolsShown
    /\ lastEvent' = Event("clearSelection", <<0, 0>>)
    /\ selectedFaceIndices' = SelectionAfterClear(mesh, selectedFaceIndices)
    /\ mesh' = MeshAfterClear(mesh)
    /\ decodedSTL' = IF decodedSTL.id = mesh.id THEN mesh' ELSE decodedSTL
    /\ toolsShown' = IF ClearRuns THEN FALSE ELSE toolsShown
    /\ UNCHANGED <<cutVars, parseVars, decodingError, selecting, reading, nextId,
                   mounted, transformControls, isDragging>>

\* The Cut button, shown when the selection was not empty at the last render:
\* gState.cutSelection(selectedFaceIndices), then React commits the new
\* decodedSTL.
CutClick ==
    /\ mounted
    /\ toolsShown
    /\ nextId + Cardinality(InFlight(reading)) <= MaxObjects
    /\ decodedSTL' = cutSelection(decodedSTL, selectedFaceIndices, nextId)
    /\ nextId' = nextId + 1
    /\ Commit(cutSelection(decodedSTL, selectedFaceIndices, nextId))
    /\ lastEvent' = Event("cut", <<0, 0>>)
    /\ UNCHANGED <<cutVars, parseVars, decodingError, selecting, reading>>

Next ==
    \/ \E file \in Files : DecodeFile(file)
    \/ \E i \in 1..MaxReading : ReaderOnLoad(i)
    \/ \E i \in 1..MaxReading : ReaderOnError(i)
    \/ CloseFile
    \/ SelectClick
    \/ RotateClick
    \/ TranslateClick
    \/ \E pointer \in Pointers : onMouseDown(pointer)
    \/ onMouseUp
    \/ \E pointer \in Pointers : onMouseMove(pointer)
    \/ clearSelection
    \/ CutClick

Spec == InitSession /\ [][Next]_vars

\* The session with the browser's file readers at work: a read in flight
\* ends, in the reader's load event or in its error event.
ReaderEnds == \E i \in 1..MaxReading : ReaderOnLoad(i) \/ ReaderOnError(i)

SpecReading == InitSession /\ [][Next]_vars /\ WF_vars(ReaderEnds)

\* ------------------------------------------------- the viewer on its own
\* The DecodedSTL objects an STLViewer may be mounted with: what decodeSTL
\* makes of a file, and a geometry as the loader returns it, which has no
\* colour attribute.
ViewerProps ==
    {decodeSTL(file, 1) : file \in Files \ {"bad"}}
        \cup {ParsedSTL(file, 1) : file \in Files \ {"bad"}}

\* A newly mounted STLViewer: field initialisers, componentDidMount.
InitMounted ==
    /\ geometry = NoGeometry
    /\ facesToRemove = {}
    /\ cutOutcome = NoOutcome
    /\ cutPc = "idle"
    /\ InitParseIdle
    /\ decodedSTL \in ViewerProps
    /\ decodingError = ""
    /\ selecting = FALSE
    /\ reading = <<>>
    /\ nextId = 2
    /\ mounted = TRUE
    /\ mesh = decodedSTL
    /\ isDragging = FALSE
    /\ selectedFaceIndices = {}
    /\ toolsShown = FALSE
    /\ transformControls = NewTransformControls
    /\ lastEvent = Event("none", <<0, 0>>)

SpecViewer == InitMounted /\ [][Next]_vars

\* ------------------------------------------------------ the loader's files
\* Largest number of 50-byte records of a binary file.
MaxFaces == 2
\* Largest number of items (facets and solid boundaries) of a text file.
MaxItems == 4

\* n as the four bytes of a little-endian uint32 (n < 2^31).
Uint32Bytes(n) == <<n % 256, (n \div 256) % 256, (n \div 65536) % 256, n \div 16777216>>

\* k bytes 0.
Zeros(k) == [i \in 1..k |-> 0]

\* The 80-byte headers: blank; with "solid" at offset 0, 4 or 5; holding
\* the tag "COLOR=" and a default colour r, g, b, a at offset 10.
ColorHeader == Zeros(10) \o <<67, 79, 76, 79, 82, 61, 51, 102, 0, 127>> \o Zeros(60)

Headers ==
    {Zeros(80),
     solid \o Zeros(75),
     Zeros(4) \o solid \o Zeros(71),
     Zeros(5) \o solid \o Zeros(70),
     ColorHeader}

\* The 32 bits of the float in slot j (0..11: the normal, then the three
\* vertices) of a record of the given kind: 0x3F00kk00, all distinct.
SlotBits(kind, j) == 1056964608 + 256 * (12 * kind + j + 1)

\* The attribute fields of the two kinds of record: 0x001F (bit 15 clear,
\* red 31) and 0x8000 (bit 15 set).
AttributeBytes(kind) == IF kind = 0 THEN <<31, 0>> ELSE <<0, 128>>

\* A 50-byte record: 12 floats, little-endian, and the attribute field.
Record(kind) ==
    Flatten([j \in 1..12 |-> Uint32Bytes(SlotBits(kind, j - 1))]) \o AttributeBytes(kind)

\* The largest value of a 16-bit attribute field.
Uint16Max == 65535

\* The record of the given kind with the attribute field set to field.
RecordWith(kind, field) ==
    Flatten([j \in 1..12 |-> Uint32Bytes(SlotBits(kind, j - 1))])
      \o <<field % 256, field \div 256>>

\* Attribute fields of the files of two faces: 0x001F, 0x7C00, 0x7FFF,
\* 0x8000, 0x83E0, 0xFFFF.
PairFields == {31, 31744, 32767, 32768, 33760, 65535}

\* The files with the tag "COLOR=" in the header: one face with each of the
\* given values of the attribute field, and two faces with each pair of
\* PairFields.
ColorFiles(fields) ==
    {ColorHeader \o Uint32Bytes(1) \o RecordWith(0, field) : field \in fields}
      \cup {ColorHeader \o Uint32Bytes(2) \o RecordWith(0, pair[1]) \o RecordWith(1, pair[2]) :
                pair \in PairFields \X PairFields}

\* The face count fields: the counts up to one more than the records a file
\* may hold, and a count of 2^31.
CountFields == {Uint32Bytes(n) : n \in 0..(MaxFaces + 1)} \cup {<<0, 0, 0, 128>>}

\* How many bytes a file may lack at its end.
Drops == {0, 2, 3}

\* The binary-shaped files: a header, a count field, records, with the last
\* bytes dropped or not.
BinaryFiles ==
    {SubSeq(whole, 1, Len(whole) - drop) :
        whole \in {header \o count \o Flatten([k \in 1..Len(kinds) |-> Record(kinds[k])]) :
                     header \in Headers, count \in CountFields,
                     kinds \in UNION {[1..m -> {0, 1}] : m \in 0..MaxFaces}},
        drop \in Drops}

\* The digit d as a character.
Digit(d) == 48 + d

\* "vertex x y z\n"
VertexLine(x, y, z) == vertex \o <<32, Digit(x), 32, Digit(y), 32, Digit(z), 10>>

\* The items of a text file, b being the item's place in the file:
\* "good" is a facet with its normal (b, 0, 1) and three vertices (b, j, 0),
\* "two" the same with two vertices only, "bare" a facet of three vertices
\* with no normal, "next" the end of a solid and the start of another.
Item(kind, b) ==
    CASE kind = "good" ->
            facet \o <<32>> \o normal \o <<32, Digit(b), 32, Digit(0), 32, Digit(1), 10>>
              \o VertexLine(b, 1, 0) \o VertexLine(b, 2, 0) \o VertexLine(b, 3, 0)
              \o endfacet \o <<10>>
      [] kind = "two" ->
            facet \o <<32>> \o normal \o <<32, Digit(b), 32, Digit(0), 32, Digit(1), 10>>
              \o VertexLine(b, 1, 0) \o VertexLine(b, 2, 0)
              \o endfacet \o <<10>>
      [] kind = "bare" ->
            facet \o <<10>>
              \o VertexLine(b, 1, 0) \o VertexLine(b, 2, 0) \o VertexLine(b, 3, 0)
              \o endfacet \o <<10>>
      [] OTHER -> endsolid \o <<10>> \o solid \o <<32, 97 + b, 10>>

ItemKinds == {"good", "two", "bare", "next"}

\* The text files: "solid a", the items, and "endsolid" or nothing.
TextOf(kinds, last) ==
    solid \o <<32, 97, 10>> \o Flatten([b \in 1..Len(kinds) |-> Item(kinds[b], b)]) \o last

TextFiles ==
    {TextOf(kinds, last) :
        kinds \in UNION {[1..m -> ItemKinds] : m \in 0..MaxItems},
        last \in {endsolid \o <<10>>, <<>>}}

\* A call of the loader on a file that was read.
InitParse ==
    /\ geometry = NoGeometry
    /\ facesToRemove = {}
    /\ cutOutcome = NoOutcome
    /\ cutPc = "idle"
    /\ data \in BinaryFiles \cup TextFiles
    /\ parseOutcome = NoParse
    /\ parsePc = "call"
    /\ InitApp
    /\ InitViewer
    /\ lastEvent = Event("none", <<0, 0>>)

\* One call of loader.parse(contents).
ParseCall ==
    /\ parsePc = "call"
    /\ parseOutcome' = parse(data, 1)
    /\ parsePc' = "done"
    /\ UNCHANGED <<data, cutVars, appVars, viewerVars, lastEvent>>

NextParse == ParseCall

SpecParse == InitParse /\ [][NextParse]_vars

\* A call of the loader on a binary file with a default colour.
InitColor ==
    /\ geometry = NoGeometry
    /\ facesToRemove = {}
    /\ cutOutcome = NoOutcome
    /\ cutPc = "idle"
    /\ data \in ColorFiles(0..Uint16Max)
    /\ parseOutcome = NoParse
    /\ parsePc = "call"
    /\ InitApp
    /\ InitViewer
    /\ lastEvent = Event("none", <<0, 0>>)

SpecColor == InitColor /\ [][NextParse]_vars

\* ------------------------------------------------------------- the claims
\* --- cutAwaySelection, under SpecCut ---

\* The source's faces: the indices the cutter's loop runs over.
SourceFaces == {f \in 0..MaxVerts : 3 * f < Count(geometry.attributes["position"])}

\* The faces that are not selected, and the j-th of them (from 0) in
\* increasing order.
KeptFaces == SourceFaces \ facesToRemove

NthKept(j) == CHOOSE f \in KeptFaces : Cardinality({g \in KeptFaces : g < f}) = j

\* Component c of source vertex v in attribute attr; a slot past the end of
\* the source array holds no number.
SourceSlot(attr, v, c) ==
    IF v * attr.itemSize + c + 1 <= Len(attr.array)
    THEN attr.array[v * attr.itemSize + c + 1] ELSE NaN

\* C1: on a non-indexed source the cut returns a buffer whose vertex count
\* is divisible by 3 and that holds, attribute by attribute, exactly the
\* vertices 3f, 3f+1, 3f+2 of every face f not in the selection, in
\* increasing order of f (so no vertex of a selected face).
C1_CutKeepsUnselectedFaces ==
    (cutPc = "done" /\ ~geometry.index) =>
        LET src == geometry.attributes
            out == cutOutcome.newGeometry.attributes
        IN  /\ ~cutOutcome.threw
            /\ "position" \in DOMAIN out
            /\ Count(out["position"]) % 3 = 0
            /\ \A a \in (DOMAIN out) \cap (DOMAIN src) :
                /\ out[a].itemSize = src[a].itemSize
                /\ Len(out[a].array) = 3 * Cardinality(KeptFaces) * src[a].itemSize
                /\ \A j \in 0..(Cardinality(KeptFaces) - 1), i \in 0..2 :
                     \A c \in 0..(src[a].itemSize - 1) :
                        out[a].array[(3 * j + i) * src[a].itemSize + c + 1]
                            = SourceSlot(src[a], 3 * NthKept(j) + i, c)

\* A cut that removed face 0 and kept face 1 of a buffer with all four
\* attributes.
C1_Witness ==
    /\ cutPc = "done"
    /\ ~geometry.index
    /\ DOMAIN geometry.attributes = {"position", "normal", "uv", "color"}
    /\ Count(geometry.attributes["position"]) = 6
    /\ facesToRemove = {0}
    /\ Count(cutOutcome.newGeometry.attributes["position"]) = 3

\* C2: a cut with an empty selection returns a buffer with the attributes of
\* the source and the same values at every vertex index.  (Stated for the
\* sources that carry normals, as every decoded buffer does: for the others
\* the cutter adds computed normals.)
C2_EmptySelectionIsIdentity ==
    (cutPc = "done" /\ ~geometry.index /\ facesToRemove = {}
        /\ HasAttribute(geometry, "normal")) =>
        cutOutcome.newGeometry.attributes = geometry.attributes

\* C3: the call changes neither the source buffer nor the caller's selection
\* set, whether it returns or throws, and what it returns is another object.
C3_CutIsPure ==
    [][(cutPc = "call" /\ cutPc' = "done") =>
        /\ geometry' = geometry
        /\ facesToRemove' = facesToRemove
        /\ (~cutOutcome'.threw => cutOutcome'.newGeometry.id # geometry.id)]_vars

\* A cut that dropped a face of its source, which still has it.
C3_Witness ==
    /\ cutPc = "done"
    /\ ~cutOutcome.threw
    /\ facesToRemove = {1}
    /\ Count(geometry.attributes["position"]) = 6
    /\ Count(cutOutcome.newGeometry.attributes["position"]) = 3

\* C4: the output has a uv attribute exactly when the source has one, a
\* colour attribute exactly when the source has one, and always a normal
\* attribute.
C4_AttributeSetPreserved ==
    (cutPc = "done" /\ ~geometry.index) =>
        /\ HasAttribute(cutOutcome.newGeometry, "uv") <=> HasAttribute(geometry, "uv")
        /\ HasAttribute(cutOutcome.newGeometry, "color") <=> HasAttribute(geometry, "color")
        /\ HasAttribute(cutOutcome.newGeometry, "normal")

\* C5: on an indexed buffer the cut throws before it fetches any attribute
\* or reads any vertex, and gives no buffer.
C5_IndexedGeometryThrows ==
    (cutPc = "done" /\ geometry.index) =>
        /\ cutOutcome.threw
        /\ cutOutcome.fetched = {}
        /\ cutOutcome.vertsRead = {}
        /\ cutOutcome.newGeometry = NoGeometry

\* A cut asked of an indexed buffer of two faces, with a face selected.
C5_Witness ==
    /\ cutPc = "done"
    /\ geometry.index
    /\ Count(geometry.attributes["position"]) = 6
    /\ facesToRemove = {0}
    /\ cutOutcome.threw

\* --- the editing session, under Spec ---

\* C6: every face index in the selection set is a face index of the current
\* buffer, the viewer's mesh and the session's decodedSTL alike.
C6_SelectionIndicesValid ==
    \A f \in selectedFaceIndices :
        /\ mesh # NoGeometry
        /\ 3 * f < Count(mesh.attributes["position"])
        /\ decodedSTL # NoGeometry
        /\ 3 * f < Count(decodedSTL.attributes["position"])

\* The buffer was just replaced by a cut that took one face of two, with the
\* selection not empty when the Cut button was pressed.
C6_Witness ==
    /\ lastEvent.type = "cut"
    /\ toolsShown
    /\ mesh # NoGeometry
    /\ Count(mesh.attributes["position"]) = 3
    /\ selectedFaceIndices = {}

\* C7: a step that gives the viewer a new mesh leaves the selection set
\* empty, so it is empty before any pointer event on that mesh.
C7_NewMeshHasEmptySelection ==
    [][(mesh' # NoGeometry /\ mesh'.id # mesh.id) => selectedFaceIndices' = {}]_vars

\* A load that replaced the mesh of a mounted viewer whose selection was not
\* empty (the Editor rendered it so just before).
C7_Witness ==
    /\ lastEvent.type = "load"
    /\ mounted
    /\ toolsShown
    /\ mesh.id > 1
    /\ selectedFaceIndices = {}

\* The complete faces of the viewer's mesh whose centroid, projected to the
\* screen, lies within 10 pixels of the pointer: squared distance <= 100.
\* With (sx, sy) the sums of the three corners' screen coordinates the
\* centroid is (sx / 3, sy / 3), and the test is taken times 9.  A face with
\* a NaN coordinate has no projection.
FacesWithinTenPixels(pointer) ==
    LET position == mesh.attributes["position"]
        Corner(f, i) == <<position.array[9 * f + 3 * i + 1], position.array[9 * f + 3 * i + 2]>>
        sx(f) == ScreenX(Corner(f, 0)[1]) + ScreenX(Corner(f, 1)[1]) + ScreenX(Corner(f, 2)[1])
        sy(f) == ScreenY(Corner(f, 0)[2]) + ScreenY(Corner(f, 1)[2]) + ScreenY(Corner(f, 2)[2])
        real(f) == \A k \in (9 * f + 1)..(9 * f + 9) : position.array[k] # NaN
    IN  {f \in 0..((Len(position.array) \div 9) - 1) :
            /\ real(f)
            /\ (sx(f) - 3 * pointer[1]) * (sx(f) - 3 * pointer[1])
             + (sy(f) - 3 * pointer[2]) * (sy(f) - 3 * pointer[2]) <= 9 * 100}

\* C8: a pointer-move with the brush active (dragging, in selecting mode)
\* makes the selection the old one plus the faces within 10 pixels; any other
\* pointer-move changes neither the selection nor the buffer's colours.
C8_MoveAddsFacesInRadius ==
    [][lastEvent'.type = "mousemove" =>
        IF isDragging /\ selecting
        THEN selectedFaceIndices' =
                selectedFaceIndices \cup FacesWithinTenPixels(<<lastEvent'.x, lastEvent'.y>>)
        ELSE selectedFaceIndices' = selectedFaceIndices /\ mesh' = mesh]_vars

\* A move at exactly 10 pixels from both centroids of the two-face mesh has
\* selected both faces.
C8_Witness ==
    /\ lastEvent = Event("mousemove", <<30, 20>>)
    /\ isDragging
    /\ selecting
    /\ Count(mesh.attributes["position"]) = 6
    /\ selectedFaceIndices = {0, 1}

\* C9: no pointer-down, pointer-move or pointer-up removes a face from the
\* selection; a move that covers only selected faces, and so a move handled
\* a second time, leaves the selection as it is.
C9_BrushIsMonotoneAndIdempotent ==
    [][/\ lastEvent'.type \in {"mousedown", "mousemove", "mouseup"}
            => selectedFaceIndices \subseteq selectedFaceIndices'
       /\ (lastEvent'.type = "mousemove"
            /\ FacesWithinTenPixels(<<lastEvent'.x, lastEvent'.y>>) \subseteq selectedFaceIndices)
            => selectedFaceIndices' = selectedFaceIndices
       /\ (lastEvent.type = "mousemove" /\ lastEvent' = lastEvent)
            => selectedFaceIndices' = selectedFaceIndices]_vars

\* A move over face 0 alone was handled with face 1 selected before it, and
\* face 1 is still selected.
C9_Witness ==
    /\ lastEvent = Event("mousemove", <<20, 20>>)
    /\ isDragging
    /\ selecting
    /\ Count(mesh.attributes["position"]) = 6
    /\ selectedFaceIndices = {0, 1}

\* C10: a pointer-down never changes the selection and never ends a drag; it
\* starts one exactly when selecting mode is on and the ray through the
\* pointer meets a triangle of the mesh.
C10_DownActivatesOnHit ==
    [][lastEvent'.type = "mousedown" =>
        /\ selectedFaceIndices' = selectedFaceIndices
        /\ isDragging' =
            (isDragging \/ (selecting /\ Intersects(mesh, <<lastEvent'.x, lastEvent'.y>>) # {}))]_vars

\* A pointer-down on face 0 started a drag, with nothing selected.
C10_Witness ==
    /\ lastEvent = Event("mousedown", <<20, 20>>)
    /\ selecting
    /\ isDragging
    /\ selectedFaceIndices = {}

\* C11: the selection accumulates across drags.  A pointer-up leaves it as
\* it is; a pointer-move of a drag makes it the old set plus the faces that
\* move painted (so after any number of complete drags it is the union of
\* what each painted); and a step after which a face is no longer selected
\* is a clearSelection or a replacement of the buffer (cut, load, close).
C11_SelectionAccumulates ==
    [][/\ lastEvent'.type = "mouseup" => selectedFaceIndices' = selectedFaceIndices
       /\ lastEvent'.type = "mousemove" =>
            \/ selectedFaceIndices' = selectedFaceIndices
            \/ selectedFaceIndices' =
                  selectedFaceIndices \cup FacesWithinTenPixels(<<lastEvent'.x, lastEvent'.y>>)
       /\ ~(selectedFaceIndices \subseteq selectedFaceIndices') =>
            lastEvent'.type \in {"clearSelection", "cut", "load", "close"}]_vars

\* A pointer-up has ended a drag and both faces painted so far are still
\* selected.
C11_Witness ==
    /\ lastEvent.type = "mouseup"
    /\ selecting
    /\ ~isDragging
    /\ Count(mesh.attributes["position"]) = 6
    /\ selectedFaceIndices = {0, 1}

\* C12: every pointer-up leaves the brush inactive (isDragging false),
\* whatever selecting mode is at that moment, so that a pointer-move handled
\* right after a pointer-up adds no face.
C12_PointerUpDeactivates ==
    [][/\ lastEvent'.type = "mouseup" => ~isDragging'
       /\ (lastEvent.type = "mouseup" /\ lastEvent'.type = "mousemove") =>
            selectedFaceIndices' = selectedFaceIndices]_vars

\* --- the viewer with any buffer, under SpecViewer ---

\* The colour (r, g, b) of vertex v in a geometry's colour attribute.
VertexColor(geom, v) ==
    <<geom.attributes["color"].array[3 * v + 1], geom.attributes["color"].array[3 * v + 2],
      geom.attributes["color"].array[3 * v + 3]>>

\* Every vertex colour the geometry holds is the base colour 0.29, 0.69, 1.0.
AllBaseColor(geom) ==
    HasAttribute(geom, "color") =>
        \A v \in 0..(Count(geom.attributes["color"]) - 1) : VertexColor(geom, v) = BaseColor

\* C13: in every state with a mesh loaded, clearSelection() called there
\* (whether or not anything is selected, whether or not the buffer has a
\* colour attribute) leaves the selection set empty and every vertex colour
\* the base colour, and a second call changes nothing more.
C13_ClearSelectionResets ==
    mesh # NoGeometry =>
        LET selected1 == SelectionAfterClear(mesh, selectedFaceIndices)
            mesh1 == MeshAfterClear(mesh)
        IN  /\ selected1 = {}
            /\ AllBaseColor(mesh1)
            /\ SelectionAfterClear(mesh1, selected1) = selected1
            /\ MeshAfterClear(mesh1) = mesh1

\* "Deselect all" was pressed on the two-face mesh while a drag that had
\* painted it was still going on: nothing is selected and no vertex is red.
C13_Witness ==
    /\ lastEvent.type = "clearSelection"
    /\ isDragging
    /\ selecting
    /\ Count(mesh.attributes["position"]) = 6
    /\ selectedFaceIndices = {}
    /\ AllBaseColor(mesh)
    /\ HasAttribute(mesh, "color")

\* C14: after a pointer-move handled with the brush active the buffer has a
\* colour attribute, the vertices 3f, 3f+1, 3f+2 of every selected face f
\* are red (1, 0, 0), and, when the move had to allocate the attribute, every
\* vertex of an unselected face has the colour clearSelection resets to.
C14_HighlightColors ==
    [][(lastEvent'.type = "mousemove" /\ isDragging /\ selecting) =>
        /\ HasAttribute(mesh', "color")
        /\ \A f \in selectedFaceIndices', i \in 0..2 : VertexColor(mesh', 3 * f + i) = Red
        /\ ~HasAttribute(mesh, "color") =>
              \A v \in 0..(Count(mesh'.attributes["color"]) - 1) :
                  (v \div 3) \notin selectedFaceIndices' =>
                      VertexColor(mesh', v) = VertexColor(MeshAfterClear(mesh'), v)]_vars

\* --- the loader, under SpecParse ---

\* The uint32 the four bytes at offset 80 spell, little-endian, for a top
\* byte below 128.
DeclaredFaces == data[81] + 256 * data[82] + 65536 * data[83] + 16777216 * data[84]

\* The file is as long as a binary file of N records and declares N.
IsWholeBinary(N) ==
    /\ Len(data) = 84 + 50 * N
    /\ data[84] < 128
    /\ DeclaredFaces = N

\* The file has the four count bytes and is shorter than the count says.
IsShortBinary ==
    /\ Len(data) >= 84
    /\ \/ data[84] >= 128
       \/ DeclaredFaces > Len(data)
       \/ Len(data) < 84 + 50 * DeclaredFaces

\* "solid" stands at byte offset off of the file.
SolidAt(off) ==
    /\ off + 5 <= Len(data)
    /\ \A k \in 1..5 : data[off + k] = <<115, 111, 108, 105, 100>>[k]

\* C15: every buffer the system produces has a vertex count that is a
\* multiple of 3: what the loader returns for a file, binary or text, and
\* what the cut returns.
C15_VertexCountMultipleOfThree ==
    /\ (parsePc = "done" /\ ~parseOutcome.threw) =>
            Count(parseOutcome.geometry.attributes["position"]) % 3 = 0
    /\ (cutPc = "done" /\ ~cutOutcome.threw) =>
            Count(cutOutcome.newGeometry.attributes["position"]) % 3 = 0

\* C16: a file whose length is 84 + 50 n, n being the count at offset 80, is
\* classified Binary, also when it starts with "solid".
C16_LengthCheckFirst ==
    (parsePc = "done" /\ \E N \in 0..(MaxFaces + 1) : IsWholeBinary(N)) =>
        parseOutcome.format = "Binary"

\* A file of one record that starts with "solid" was taken as binary and
\* decoded to one triangle.
C16_Witness ==
    /\ parsePc = "done"
    /\ IsWholeBinary(1)
    /\ SolidAt(0)
    /\ parseOutcome.format = "Binary"
    /\ ~parseOutcome.threw
    /\ Count(parseOutcome.geometry.attributes["position"]) = 3

\* C17: a file whose length does not match its count is classified Ascii
\* when "solid" stands at one of the offsets 0..4 and Binary otherwise.
C17_TextSniff ==
    (parsePc = "done" /\ ~(\E N \in 0..(MaxFaces + 1) : IsWholeBinary(N))) =>
        parseOutcome.format =
            IF \E off \in 0..4 : SolidAt(off) THEN "Ascii" ELSE "Binary"

\* C18: the detector gives Binary or Ascii for every file, the files
\* shorter than 84 bytes too.
C18_DetectorTotal ==
    parsePc = "done" => parseOutcome.format \in {"Binary", "Ascii"}

\* C19: a file of length 84 + 50 N that declares N decodes to N triangles;
\* component c of the position of vertex 3f + i is the float at offset
\* 84 + 50 f + 12 + 12 i + 4 c, that of its normal the float at offset
\* 84 + 50 f + 4 c, bit for bit (the decoded bits, written back as four
\* little-endian bytes, are the file's bytes).
C19_BinaryRoundTrip ==
    \A N \in 0..(MaxFaces + 1) :
        (parsePc = "done" /\ IsWholeBinary(N)) =>
            /\ ~parseOutcome.threw
            /\ Len(parseOutcome.geometry.attributes["position"].array) = 9 * N
            /\ Len(parseOutcome.geometry.attributes["normal"].array) = 9 * N
            /\ \A f \in 0..(N - 1), i \in 0..2, c \in 0..2 :
                LET k == 9 * f + 3 * i + c + 1
                    rec == 84 + 50 * f
                IN  /\ Uint32Bytes(parseOutcome.geometry.attributes["position"].array[k])
                         = SubSeq(data, rec + 12 + 12 * i + 4 * c + 1, rec + 12 + 12 * i + 4 * c + 4)
                    /\ Uint32Bytes(parseOutcome.geometry.attributes["normal"].array[k])
                         = SubSeq(data, rec + 4 * c + 1, rec + 4 * c + 4)

\* A file of two different records was decoded to two triangles.
C19_Witness ==
    /\ parsePc = "done"
    /\ IsWholeBinary(2)
    /\ SubSeq(data, 85, 134) # SubSeq(data, 135, 184)
    /\ ~parseOutcome.threw
    /\ Count(parseOutcome.geometry.attributes["position"]) = 6

\* C20: a file given to the binary decoder that is shorter than 84 + 50 N,
\* N being the count it declares, makes the decoder fail: it returns no
\* buffer.
C20_TruncatedBinaryFails ==
    (parsePc = "done" /\ parseOutcome.format = "Binary" /\ IsShortBinary) =>
        /\ parseOutcome.threw
        /\ parseOutcome.geometry = NoGeometry


\* --- the per-face colours of a binary file, under SpecColor ---
\* The attribute field of face f of the file, read from its two bytes.
AttributeField(f) == data[84 + 50 * f + 49] + 256 * data[84 + 50 * f + 50]

\* The colour that a face with the given attribute field is to have, as
\* stored: from its own 5-bit channels when bit 15 is 0, else the default
\* colour of the header (bytes 16, 17, 18).
ExpectedColor(field) ==
    IF field < 32768
    THEN <<LinearOfFiveBits[(field % 32) + 1],
           LinearOfFiveBits[((field \div 32) % 32) + 1],
           LinearOfFiveBits[(field \div 1024) + 1]>>
    ELSE <<LinearOfByte[data[17] + 1], LinearOfByte[data[18] + 1], LinearOfByte[data[19] + 1]>>

\* C21: with the tag COLOR= in the header, every vertex of every face has
\* the colour resolved from that face's own 16-bit attribute field: the
\* 5-bit channels r = bits 0..4, g = bits 5..9, b = bits 10..14 over 31 when
\* bit 15 is 0 (field 0x001F gives r = 1.0), the header's default colour when
\* bit 15 is 1, whatever the field of any other face is.
C21_FaceColorFromAttribute ==
    (parsePc = "done" /\ ~parseOutcome.threw /\ parseOutcome.format = "Binary"
       /\ ColorTagIndex(data) < 70)
    => /\ HasAttribute(parseOutcome.geometry, "color")
       /\ Count(parseOutcome.geometry.attributes["color"]) = 3 * DeclaredFaces
       /\ \A f \in 0..(DeclaredFaces - 1) : \A i \in 0..2 : \A c \in 0..2 :
             GetComponent(parseOutcome.geometry.attributes["color"], 3 * f + i, c)
               = ExpectedColor(AttributeField(f))[c + 1]

\* A file of two faces is decoded: the first, with the field 0x001F, is
\* pure red (r = 1.0), the second, with bit 15 set, has the default colour.
C21_Witness ==
    /\ parsePc = "done" /\ ~parseOutcome.threw
    /\ ColorTagIndex(data) < 70
    /\ DeclaredFaces = 2
    /\ AttributeField(0) = 31 /\ AttributeField(1) = 33760
    /\ VertexColor(parseOutcome.geometry, 0) = <<1000000, 0, 0>>
    /\ VertexColor(parseOutcome.geometry, 3) = <<LinearOfByte[52], LinearOfByte[103], 0>>

\* --- the ASCII decoder, under SpecParse ---
\* The well-formed texts: facets with one normal and three vertices in
\* solids that are all closed.
WellFormedKinds == UNION {[1..m -> {"good", "next"}] : m \in 0..MaxItems}

\* The places of the facets of a text before place b.
FacetsBefore(kinds, b) == {c \in 1..Len(kinds) : c < b /\ kinds[c] # "next"}

\* Where solid i (from 0) of a text starts: place 0, or the place of the
\* i-th boundary; Len(kinds) + 1 after the last solid.
SolidStart(kinds, i) ==
    LET nexts == {b \in 1..Len(kinds) : kinds[b] = "next"}
    IN  IF i = 0 THEN 0
        ELSE IF i > Cardinality(nexts) THEN Len(kinds) + 1
        ELSE CHOOSE b \in nexts : Cardinality({c \in nexts : c <= b}) = i

\* The decoder was given the text and returned.
AsciiDecoded ==
    parsePc = "done" /\ parseOutcome.format = "Ascii" /\ ~parseOutcome.threw

\* C22: a well-formed text of solids S_0 .. S_(k-1) with n_i facets decodes
\* to 3 * sum(n_i) vertices, the three vertices of each facet are its own
\* with its own normal, and solid S_i is the group i, named after it, that
\* starts at vertex 3 * (n_0 + .. + n_(i-1)) and counts 3 * n_i vertices.
C22_WellFormedText ==
    \A kinds \in WellFormedKinds :
        (AsciiDecoded /\ data = TextOf(kinds, endsolid \o <<10>>)) =>
            LET position == parseOutcome.geometry.attributes["position"]
                normals == parseOutcome.geometry.attributes["normal"]
                facets == FacetsBefore(kinds, Len(kinds) + 1)
                k == Len(kinds) - Cardinality(facets) + 1
            IN  /\ Count(position) = 3 * Cardinality(facets)
                /\ Count(normals) = Count(position)
                /\ \A b \in facets : \A j \in 0..2 :
                      LET v == 3 * Cardinality(FacetsBefore(kinds, b)) + j
                      IN  /\ VertexAt(position, v) = <<b, j + 1, 0>>
                          /\ VertexAt(normals, v) = <<b, 0, 1>>
                /\ Len(parseOutcome.groups) = k
                /\ Len(parseOutcome.groupNames) = k
                /\ \A i \in 0..(k - 1) :
                      /\ parseOutcome.groups[i + 1].start
                            = 3 * Cardinality(FacetsBefore(kinds, SolidStart(kinds, i)))
                      /\ parseOutcome.groups[i + 1].count
                            = 3 * Cardinality(FacetsBefore(kinds, SolidStart(kinds, i + 1)))
                                - parseOutcome.groups[i + 1].start
                      /\ parseOutcome.groups[i + 1].materialIndex = i
                      /\ parseOutcome.groupNames[i + 1]
                            = <<97 + SolidStart(kinds, i)>>

\* A text of two solids, the first of two facets and the second, "d", of
\* one, was decoded to 9 vertices in the groups [0, 6) and [6, 9).
C22_Witness ==
    /\ AsciiDecoded
    /\ data = TextOf(<<"good", "good", "next", "good">>, endsolid \o <<10>>)
    /\ Count(parseOutcome.geometry.attributes["position"]) = 9
    /\ parseOutcome.groups[2].start = 6 /\ parseOutcome.groups[2].count = 3
    /\ parseOutcome.groupNames = <<(<<97>>), (<<100>>)>>

\* C23: a facet with a wrong number of vertex or normal triples does not
\* make the decoder fail, and every well-formed facet after it in the text,
\* in the same solid or a later one, is decoded with its three vertices.
C23_MalformedFacetIsSoft ==
    \A kinds \in UNION {[1..m -> ItemKinds] : m \in 0..MaxItems} :
        (parsePc = "done" /\ parseOutcome.format = "Ascii"
           /\ data = TextOf(kinds, endsolid \o <<10>>)) =>
            /\ ~parseOutcome.threw
            /\ \A b \in 1..Len(kinds) :
                  (kinds[b] = "good" /\ \E c \in 1..(b - 1) : kinds[c] \in {"two", "bare"}) =>
                      \E v \in 0..(Count(parseOutcome.geometry.attributes["position"]) - 3) :
                          \A j \in 0..2 :
                              VertexAt(parseOutcome.geometry.attributes["position"], v + j)
                                = <<b, j + 1, 0>>

\* A facet of two vertices, then a facet with no normal, then in a later
\* solid a well-formed facet: 8 vertices, the last three being those of the
\* well-formed facet.
C23_Witness ==
    /\ AsciiDecoded
    /\ data = TextOf(<<"two", "bare", "next", "good">>, endsolid \o <<10>>)
    /\ Count(parseOutcome.geometry.attributes["position"]) = 8
    /\ VertexAt(parseOutcome.geometry.attributes["position"], 5) = <<4, 1, 0>>
    /\ VertexAt(parseOutcome.geometry.attributes["position"], 7) = <<4, 3, 0>>

\* --- decoding in the session, under Spec ---
\* The step is the completion of a call in flight whose file the parser
\* throws on.
FailedLoad ==
    /\ lastEvent'.type = "load"
    /\ \E i \in InFlight(reading) :
          ParseThrows(reading[i].file) /\ reading' = Settle(reading, i, "failed")

\* C24: a decodeFile call that fails leaves decodedSTL as it was, at its
\* start and at its failure, and its failure puts its error in
\* decodingError.
C24_FailedDecodeKeepsMesh ==
    [][/\ lastEvent'.type = "decodeFile" => decodedSTL' = decodedSTL
       /\ FailedLoad => (decodedSTL' = decodedSTL /\ decodingError' = "parse")]_vars

\* A decode has just failed while the mesh of an earlier pick is loaded:
\* the mesh is still there and the error is set.
C24_Witness ==
    /\ lastEvent.type = "load"
    /\ decodingError = "parse"
    /\ decodedSTL # NoGeometry
    /\ mounted /\ mesh = decodedSTL

\* C25: once decodeFile is called, eventually decodedSTL holds a mesh or
\* decodingError holds an error, whether the parser throws or the reader
\* reports an error instead of a load.
C25_DecodeSettles ==
    (lastEvent.type = "decodeFile") ~> (decodedSTL # NoGeometry \/ decodingError # "")

\* C26: when the older of two overlapping decodeFile calls completes after
\* the later one has, the state keeps reflecting the later-requested file:
\* decodedSTL is not replaced by the older file's mesh, and decodingError is
\* set only if the later call failed.
C26_LaterRequestWins ==
    [][(/\ Len(reading) = 2
        /\ reading[1].file # reading[2].file
        /\ reading[1].pc = "reading" /\ reading[2].pc \in {"loaded", "failed"}
        /\ lastEvent'.type = "load" /\ reading' = <<>>)
       => /\ reading[2].pc = "loaded" => decodedSTL' = decodedSTL
          /\ decodingError' # "" => reading[2].pc = "failed"]_vars

\* --- the modes of the editor, under Spec ---
\* C27: the brush drags only in selecting mode: in every state, isDragging
\* implies selecting.
C27_DraggingImpliesSelecting == isDragging => selecting

\* C28: selecting mode is never on while the transform gizmo is in the
\* scene, whatever the Select, Rotate and Translate buttons, file closes
\* and loads did.
C28_SelectingExcludesGizmo == ~(selecting /\ transformControls.gizmoInScene)

\* The Select button has just started selecting mode on a viewer whose
\* controls had been put in rotate mode: the gizmo is out of the scene.
C28_Witness ==
    /\ lastEvent.type = "select"
    /\ selecting
    /\ transformControls = [mode |-> "rotate", gizmoInScene |-> FALSE]

\* --- the reads of cutAwaySelection, under SpecCut ---
\* C29: a call of cutAwaySelection reads no vertex index at or beyond the
\* source buffer's vertex count, whatever the count (a multiple of 3 or not)
\* and whatever the selection (indices of faces the source has or not).
C29_CutReadsWithinSource ==
    (cutPc = "done" /\ ~cutOutcome.threw) =>
        \A v \in cutOutcome.vertsRead : v < Count(geometry.attributes["position"])

\* --- the normals of the ASCII decoder, under SpecParse ---
\* C30: every vertex the ASCII decoder emits has a normal parsed from its
\* own facet block: the vertices of a facet with a normal carry it, the
\* vertices of a facet with no normal carry the normal of no earlier facet,
\* and there are as many normals as positions.
C30_NormalFromOwnFacet ==
    \A kinds \in UNION {[1..m -> ItemKinds] : m \in 0..MaxItems} :
        (AsciiDecoded /\ data = TextOf(kinds, endsolid \o <<10>>)) =>
            LET position == parseOutcome.geometry.attributes["position"]
                normals == parseOutcome.geometry.attributes["normal"]
            IN  /\ Count(normals) = Count(position)
                /\ \A v \in 0..(Count(position) - 1) :
                      LET b == VertexAt(position, v)[1]
                      IN  IF kinds[b] = "bare"
                          THEN \A c \in 1..(b - 1) :
                                  kinds[c] \in {"good", "two"} =>
                                      VertexAt(normals, v) # <<c, 0, 1>>
                          ELSE VertexAt(normals, v) = <<b, 0, 1>>
=============================================================================
